---------------------------- MODULE Spec2Model ----------------------------
(***************************************************************************)
(* The project/task store of project-tracking-mcp (src/database.py,        *)
(* src/models.py) with the status guard of the tool layer (src/server.py). *)
(*                                                                         *)
(* The store is a SQLite file shared by every caller.  Each Database       *)
(* method opens its own connection (sqlite3.connect, default               *)
(* isolation_level): a SELECT runs outside any transaction, the first      *)
(* INSERT/UPDATE/DELETE implicitly begins one and takes the file's single  *)
(* write lock, and conn.commit() publishes the connection's writes and     *)
(* releases the lock.  No connection issues PRAGMA foreign_keys, so the    *)
(* FOREIGN KEY clause of the schema is not enforced.                       *)
(*                                                                         *)
(* db is the committed content of the file, wdb the content as seen by the *)
(* connection that holds the write lock.  One step of the model is one SQL *)
(* statement (or the construction of a model object) of one caller; the    *)
(* last statement of a transaction and its conn.commit() are one step.     *)
(* datetime.now() is a clock that never goes back; two calls may read the  *)
(* same value.  uuid4 is a source of ids that are never handed out twice.  *)
(***************************************************************************)
EXTENDS Integers, Sequences, FiniteSets, TLC

\* ------------------------------------------------------------- bounds
MaxProjects == 2
MaxTasks == 2
MaxClock == 1
\* clock readings per whole second (datetime has 10^6 of them)
TicksPerSecond == 2

Callers == {"c1", "c2"}
NoCaller == "none"

\* models.py: TaskStatus = Literal[...]
TaskStatus == {"backlog", "in_progress", "review", "complete"}
\* what the callers pass as status: the store takes any str
StatusArgs == {"review", "bogus"}

VARIABLES
    db,      \* committed tables: [projects, tasks]
    wdb,     \* tables as seen by the write-lock holder (= db when nobody holds it)
    lock,    \* the caller whose connection holds the write lock, or NoCaller
    clock,   \* the current reading of datetime.now()
    nextPid, \* number of project ids handed out by uuid4
    nextTid, \* number of task ids handed out by uuid4
    pc,      \* per caller: the statement it executes next
    loc,     \* per caller: the locals of the running method
    ret,     \* what the call that ended in the last step returned or raised
    gone     \* ids removed by committed delete_project calls: [projects, tasks]

vars == <<db, wdb, lock, clock, nextPid, nextTid, pc, loc, ret, gone>>

\* ------------------------------------------------------ datetime text
\* datetime.isoformat(): the fraction is left out when it is zero
_serialize_datetime(n) ==
    IF n % TicksPerSecond = 0 THEN <<n \div TicksPerSecond>>
    ELSE <<n \div TicksPerSecond, n % TicksPerSecond>>

\* datetime.fromisoformat()
_deserialize_datetime(s) ==
    s[1] * TicksPerSecond + (IF Len(s) > 1 THEN s[2] ELSE 0)

\* ------------------------------------------------------------- tables
EmptyTable == [x \in {} |-> 0]
Without(f, S) == [x \in DOMAIN f \ S |-> f[x]]
With(f, k, v) == [x \in DOMAIN f \cup {k} |-> IF x = k THEN v ELSE f[x]]

NoLoc == [arg |-> 0, status |-> "", id |-> 0, t1 |-> 0, t2 |-> 0, project_id |-> 0,
          name |-> "", description |-> "", category |-> "", row |-> <<>>,
          seen |-> <<>>]
NoRet == [op |-> "", kind |-> "", arg |-> 0, id |-> 0, status |-> "", at |-> 0,
          value |-> <<>>]

Returned(op, kind, arg) == [NoRet EXCEPT !.op = op, !.kind = kind, !.arg = arg]

\* Database.__init__ / _init_database on a new file: two empty tables
Init ==
    /\ db = [projects |-> EmptyTable, tasks |-> EmptyTable]
    /\ wdb = db
    /\ lock = NoCaller
    /\ clock = 0
    /\ nextPid = 0
    /\ nextTid = 0
    /\ pc = [c \in Callers |-> "idle"]
    /\ loc = [c \in Callers |-> NoLoc]
    /\ ret = NoRet
    /\ gone = [projects |-> {}, tasks |-> {}]

\* time passes between statements
Tick ==
    /\ clock < MaxClock
    /\ clock' = clock + 1
    /\ ret' = NoRet
    /\ UNCHANGED <<db, wdb, lock, nextPid, nextTid, pc, loc, gone>>

\* what the second of two successive datetime.now() calls may read
Later(t) == {u \in t..MaxClock : u <= t + 1}

\* the first data-changing statement of a connection: implicit BEGIN, write lock
CanWrite(c) == lock = NoCaller

Finish(c, r) ==
    /\ pc' = [pc EXCEPT ![c] = "idle"]
    /\ loc' = [loc EXCEPT ![c] = NoLoc]
    /\ ret' = r

Goto(c, label, l) ==
    /\ pc' = [pc EXCEPT ![c] = label]
    /\ loc' = [loc EXCEPT ![c] = l]
    /\ ret' = NoRet

\* ------------------------------------------------------ SQL statements
\* SELECT id FROM projects WHERE id = ?   (fetchone() is not None)
SelectProject(d, pid) == pid \in DOMAIN d.projects

\* SELECT project_id FROM tasks WHERE id = ?   (fetchone() is not None)
SelectTask(d, tid) == tid \in DOMAIN d.tasks

\* INSERT INTO projects (id, name, description, created_at, updated_at)
InsertProject(d, pid, name, description, created, updated) ==
    [d EXCEPT !.projects = With(@, pid,
        [name |-> name, description |-> description,
         created_at |-> _serialize_datetime(created),
         updated_at |-> _serialize_datetime(updated)])]

\* INSERT INTO tasks (id, project_id, description, category, status, ...):
\* project_id is stored as given, nothing checks that the row it names exists
InsertTask(d, tid, pid, description, category, created, updated) ==
    [d EXCEPT !.tasks = With(@, tid,
        [project_id |-> pid, description |-> description, category |-> category,
         status |-> "backlog",
         created_at |-> _serialize_datetime(created),
         updated_at |-> _serialize_datetime(updated)])]

\* UPDATE projects SET updated_at = ? WHERE id = ?   (no row: nothing changes)
UpdateProjectTimestamp(d, pid, now) ==
    IF pid \in DOMAIN d.projects
    THEN [d EXCEPT !.projects[pid].updated_at = _serialize_datetime(now)]
    ELSE d

\* (mutant: a status is only written when it comes later in the list
\* backlog, in_progress, review, complete than the stored one)
UpdateTaskRow_ForwardOnly(d, tid, status, now) ==
    LET rank == [s \in {"backlog", "in_progress", "review", "complete"} |->
                    CASE s = "backlog" -> 1 [] s = "in_progress" -> 2
                      [] s = "review" -> 3 [] OTHER -> 4]
    IN  IF tid \in DOMAIN d.tasks
        THEN IF rank[status] > rank[d.tasks[tid].status]
             THEN [d EXCEPT !.tasks[tid].status = status,
                            !.tasks[tid].updated_at = _serialize_datetime(now)]
             ELSE [d EXCEPT !.tasks[tid].updated_at = _serialize_datetime(now)]
        ELSE d

\* (mutant: the UPDATE writes created_at as well)
UpdateTaskRow_Recreated(d, tid, status, now) ==
    IF tid \in DOMAIN d.tasks
    THEN [d EXCEPT !.tasks[tid].status = status,
                   !.tasks[tid].created_at = _serialize_datetime(now),
                   !.tasks[tid].updated_at = _serialize_datetime(now)]
    ELSE d

\* UPDATE tasks SET status = ?, updated_at = ? WHERE id = ?
UpdateTaskRow(d, tid, status, now) ==
    IF tid \in DOMAIN d.tasks
    THEN [d EXCEPT !.tasks[tid].status = status,
                   !.tasks[tid].updated_at = _serialize_datetime(now)]
    ELSE d

\* DELETE FROM tasks WHERE id = ?
DeleteTaskRow(d, tid) == [d EXCEPT !.tasks = Without(@, {tid})]

\* (mutant: the tasks are left to a cascade that is not enforced)
DeleteTasksOf_NoCascade(d, pid) == d

\* DELETE FROM tasks WHERE project_id = ?
DeleteTasksOf(d, pid) ==
    [d EXCEPT !.tasks = Without(@, {t \in DOMAIN @ : @[t].project_id = pid})]

\* DELETE FROM projects WHERE id = ?
DeleteProjectRow(d, pid) == [d EXCEPT !.projects = Without(@, {pid})]

\* get_project: SELECT ... FROM projects WHERE id = ?; if not project_row: return None
get_project_found(d, project_id) == project_id \in DOMAIN d.projects

TasksOf(d, pid) == {t \in DOMAIN d.tasks : d.tasks[t].project_id = pid}

\* what callers pass as ids: the id of a stored row, of a row a delete_project
\* removed, or (0) an id that was never handed out; uuid4 ids cannot be guessed
ProjectArgs == DOMAIN db.projects \cup gone.projects \cup {0}
TaskArgs == DOMAIN db.tasks \cup gone.tasks \cup {0}

\* what callers pass as texts
Names == {"Web Redesign"}
Descriptions == {"Design homepage mockup"}
Categories == {"ux"}

\* ------------------------------------------------------- create_project
\* Project(name=..., description=...): uuid4 and two datetime.now() defaults
create_project_New(c, name, description) ==
    /\ pc[c] = "idle"
    /\ nextPid < MaxProjects
    /\ nextPid' = nextPid + 1
    /\ \E t2 \in Later(clock) :
          /\ clock' = t2
          /\ Goto(c, "cp_insert",
                  [NoLoc EXCEPT !.id = nextPid + 1, !.t1 = clock, !.t2 = t2,
                                !.name = name, !.description = description])
    /\ UNCHANGED <<db, wdb, lock, nextTid, gone>>

\* INSERT INTO projects ...; conn.commit(); return project
create_project_Insert(c) ==
    /\ pc[c] = "cp_insert"
    /\ CanWrite(c)
    /\ db' = InsertProject(db, loc[c].id, loc[c].name, loc[c].description,
                           loc[c].t1, loc[c].t2)
    /\ wdb' = db'
    /\ Finish(c, [Returned("create_project", "Project", 0) EXCEPT !.id = loc[c].id])
    /\ UNCHANGED <<lock, clock, nextPid, nextTid, gone>>

\* ------------------------------------------------------- delete_project
\* DELETE FROM tasks WHERE project_id = ?  (begins the transaction)
delete_project_Tasks(c, project_id) ==
    /\ pc[c] = "idle"
    /\ CanWrite(c)
    /\ lock' = c
    /\ wdb' = DeleteTasksOf(db, project_id)
    /\ Goto(c, "dp_project", [NoLoc EXCEPT !.arg = project_id])
    /\ UNCHANGED <<db, clock, nextPid, nextTid, gone>>

\* DELETE FROM projects WHERE id = ?; conn.commit(); return cursor.rowcount > 0
delete_project_Project(c) ==
    /\ pc[c] = "dp_project"
    /\ db' = DeleteProjectRow(wdb, loc[c].arg)
    /\ wdb' = db'
    /\ lock' = NoCaller
    /\ gone' = IF SelectProject(wdb, loc[c].arg)
               THEN [projects |-> gone.projects \cup {loc[c].arg},
                     tasks |-> gone.tasks \cup TasksOf(db, loc[c].arg)]
               ELSE gone
    /\ Finish(c, Returned("delete_project",
                          IF SelectProject(wdb, loc[c].arg) THEN "True" ELSE "False",
                          loc[c].arg))
    /\ UNCHANGED <<clock, nextPid, nextTid>>

\* ---------------------------------------------------------- create_task
\* (mutant: the project is not looked up before the task is built)
create_task_Select_Unchecked(c, project_id, description, category) ==
    /\ pc[c] = "idle"
    /\ nextTid < MaxTasks
    /\ nextTid' = nextTid + 1
    /\ \E t2 \in Later(clock) :
          /\ clock' = t2
          /\ Goto(c, "ct_insert",
                  [NoLoc EXCEPT !.arg = project_id, !.id = nextTid + 1,
                                !.t1 = clock, !.t2 = t2,
                                !.description = description,
                                !.category = category])
    /\ UNCHANGED <<db, wdb, lock, nextPid, gone>>

\* SELECT id FROM projects ...; if not fetchone(): return None;
\* else Task(description, category): uuid4 and two datetime.now() defaults
create_task_Select(c, project_id, description, category) ==
    /\ pc[c] = "idle"
    /\ IF ~SelectProject(db, project_id)
       THEN /\ Finish(c, Returned("create_task", "None", project_id))
            /\ UNCHANGED <<clock, nextTid>>
       ELSE /\ nextTid < MaxTasks
            /\ nextTid' = nextTid + 1
            /\ \E t2 \in Later(clock) :
                  /\ clock' = t2
                  /\ Goto(c, "ct_insert",
                          [NoLoc EXCEPT !.arg = project_id, !.id = nextTid + 1,
                                        !.t1 = clock, !.t2 = t2,
                                        !.description = description,
                                        !.category = category])
    /\ UNCHANGED <<db, wdb, lock, nextPid, gone>>

\* INSERT INTO tasks ...  (begins the transaction)
create_task_Insert(c) ==
    /\ pc[c] = "ct_insert"
    /\ CanWrite(c)
    /\ lock' = c
    /\ wdb' = InsertTask(db, loc[c].id, loc[c].arg, loc[c].description,
                         loc[c].category, loc[c].t1, loc[c].t2)
    /\ Goto(c, "ct_update", loc[c])
    /\ UNCHANGED <<db, clock, nextPid, nextTid, gone>>

\* UPDATE projects SET updated_at = datetime.now() WHERE id = project_id;
\* conn.commit(); return task
create_task_Update(c) ==
    /\ pc[c] = "ct_update"
    /\ db' = UpdateProjectTimestamp(wdb, loc[c].arg, clock)
    /\ wdb' = db'
    /\ lock' = NoCaller
    /\ Finish(c, [Returned("create_task", "Task", loc[c].arg) EXCEPT
                     !.id = loc[c].id, !.status = "backlog", !.at = loc[c].t2])
    /\ UNCHANGED <<clock, nextPid, nextTid, gone>>

\* --------------------------------------------------- update_task_status
\* now = datetime.now()
update_task_status_Now(c, task_id, status) ==
    /\ pc[c] = "idle"
    /\ Goto(c, "ut_update", [NoLoc EXCEPT !.arg = task_id, !.status = status,
                                          !.t1 = clock])
    /\ UNCHANGED <<db, wdb, lock, clock, nextPid, nextTid, gone>>

\* (mutant: cursor.rowcount is not tested, a Task is returned for any id)
update_task_status_Update_Unchecked(c) ==
    /\ pc[c] = "ut_update"
    /\ CanWrite(c)
    /\ IF ~SelectTask(db, loc[c].arg)
       THEN /\ Finish(c, Returned("update_task_status", "Task", loc[c].arg))
            /\ UNCHANGED <<wdb, lock>>
       ELSE /\ lock' = c
            /\ wdb' = UpdateTaskRow(db, loc[c].arg, loc[c].status, loc[c].t1)
            /\ Goto(c, "ut_project",
                    [loc[c] EXCEPT !.project_id = db.tasks[loc[c].arg].project_id])
    /\ UNCHANGED <<db, clock, nextPid, nextTid, gone>>

\* UPDATE tasks SET status = ?, updated_at = ? WHERE id = ?  (begins the
\* transaction); if cursor.rowcount == 0: return None; SELECT ... WHERE t.id = ?
update_task_status_Update(c) ==
    /\ pc[c] = "ut_update"
    /\ CanWrite(c)
    /\ IF ~SelectTask(db, loc[c].arg)
       THEN /\ Finish(c, Returned("update_task_status", "None", loc[c].arg))
            /\ UNCHANGED <<wdb, lock>>
       ELSE /\ lock' = c
            /\ wdb' = UpdateTaskRow(db, loc[c].arg, loc[c].status, loc[c].t1)
            /\ Goto(c, "ut_project",
                    [loc[c] EXCEPT !.project_id = db.tasks[loc[c].arg].project_id])
    /\ UNCHANGED <<db, clock, nextPid, nextTid, gone>>

\* UPDATE projects SET updated_at = now WHERE id = task_row[6]; conn.commit();
\* return Task(..., status=task_row[3], ...): pydantic checks status against
\* TaskStatus only here, after the commit
update_task_status_Project(c) ==
    /\ pc[c] = "ut_project"
    /\ db' = UpdateProjectTimestamp(wdb, loc[c].project_id, loc[c].t1)
    /\ wdb' = db'
    /\ lock' = NoCaller
    /\ Finish(c, IF wdb.tasks[loc[c].arg].status \in TaskStatus
                 THEN [Returned("update_task_status", "Task", loc[c].arg) EXCEPT
                          !.id = loc[c].arg, !.status = wdb.tasks[loc[c].arg].status,
                          !.at = _deserialize_datetime(wdb.tasks[loc[c].arg].updated_at)]
                 ELSE [Returned("update_task_status", "ValidationError", loc[c].arg)
                          EXCEPT !.status = wdb.tasks[loc[c].arg].status])
    /\ UNCHANGED <<clock, nextPid, nextTid, gone>>

\* server.py update_task_status / api_update_task_status:
\* if status not in valid_statuses: raise; the store is not called
server_update_task_status_Invalid(c, task_id, status) ==
    /\ pc[c] = "idle"
    /\ status \notin {"backlog", "in_progress", "review", "complete"}
    /\ Finish(c, [Returned("server.update_task_status", "ValueError", 0)
                     EXCEPT !.status = status])
    /\ UNCHANGED <<db, wdb, lock, clock, nextPid, nextTid, gone>>

\* ---------------------------------------------------------- delete_task
\* (mutant: the result of the lookup is not tested)
delete_task_Select_Unchecked(c, task_id) ==
    /\ pc[c] = "idle"
    /\ Goto(c, "dt_delete",
            [NoLoc EXCEPT !.arg = task_id,
                          !.project_id = IF task_id \in DOMAIN db.tasks
                                         THEN db.tasks[task_id].project_id ELSE 0])
    /\ UNCHANGED <<db, wdb, lock, clock, nextPid, nextTid, gone>>

\* SELECT project_id FROM tasks WHERE id = ?; if not result: return False
delete_task_Select(c, task_id) ==
    /\ pc[c] = "idle"
    /\ IF ~SelectTask(db, task_id)
       THEN Finish(c, Returned("delete_task", "False", task_id))
       ELSE Goto(c, "dt_delete",
                 [NoLoc EXCEPT !.arg = task_id,
                               !.project_id = db.tasks[task_id].project_id])
    /\ UNCHANGED <<db, wdb, lock, clock, nextPid, nextTid, gone>>

\* DELETE FROM tasks WHERE id = ?  (begins the transaction)
delete_task_Delete(c) ==
    /\ pc[c] = "dt_delete"
    /\ CanWrite(c)
    /\ lock' = c
    /\ wdb' = DeleteTaskRow(db, loc[c].arg)
    /\ Goto(c, "dt_update", loc[c])
    /\ UNCHANGED <<db, clock, nextPid, nextTid, gone>>

\* UPDATE projects SET updated_at = datetime.now() WHERE id = project_id;
\* conn.commit(); return True
delete_task_Update(c) ==
    /\ pc[c] = "dt_update"
    /\ db' = UpdateProjectTimestamp(wdb, loc[c].project_id, clock)
    /\ wdb' = db'
    /\ lock' = NoCaller
    /\ Finish(c, Returned("delete_task", "True", loc[c].arg))
    /\ UNCHANGED <<clock, nextPid, nextTid, gone>>

\* ------------------------------------------------- failures of a call
\* `with sqlite3.connect(...) as conn` leaves by an exception inside the
\* transaction: conn.rollback(), none of its writes is kept
Rollback(c) ==
    /\ lock = c
    /\ wdb' = db
    /\ lock' = NoCaller
    /\ Finish(c, Returned("", "Rollback", 0))
    /\ UNCHANGED <<db, clock, nextPid, nextTid, gone>>

WritesNext == {"cp_insert", "ct_insert", "ut_update", "dt_delete"}

\* the write lock stays taken by another connection for the whole busy
\* timeout: sqlite3.OperationalError (database is locked), nothing written
Busy(c) ==
    /\ pc[c] \in WritesNext
    /\ lock \notin {NoCaller, c}
    /\ Finish(c, Returned("", "OperationalError", 0))
    /\ UNCHANGED <<db, wdb, lock, clock, nextPid, nextTid, gone>>

\* delete_project's first statement is the DELETE that needs the write lock
delete_project_Busy(c, project_id) ==
    /\ pc[c] = "idle"
    /\ lock \notin {NoCaller, c}
    /\ Finish(c, Returned("", "OperationalError", 0))
    /\ UNCHANGED <<db, wdb, lock, clock, nextPid, nextTid, gone>>

Next ==
    \/ Tick
    \/ \E c \in Callers :
        \/ \E n \in Names, d \in Descriptions : create_project_New(c, n, d)
        \/ create_project_Insert(c)
        \/ \E p \in ProjectArgs : delete_project_Tasks(c, p)
        \/ delete_project_Project(c)
        \/ \E p \in ProjectArgs, d \in Descriptions, g \in Categories :
              create_task_Select(c, p, d, g)
        \/ create_task_Insert(c)
        \/ create_task_Update(c)
        \/ \E t \in TaskArgs, s \in StatusArgs : update_task_status_Now(c, t, s)
        \/ update_task_status_Update(c)
        \/ update_task_status_Project(c)
        \/ \E t \in TaskArgs, s \in StatusArgs :
              server_update_task_status_Invalid(c, t, s)
        \/ \E t \in TaskArgs : delete_task_Select(c, t)
        \/ delete_task_Delete(c)
        \/ delete_task_Update(c)
        \/ Rollback(c)
        \/ Busy(c)
        \/ \E p \in ProjectArgs : delete_project_Busy(c, p)

Spec == Init /\ [][Next]_vars

\* ================================================ queries and the tool layer
\* str.strip() on a name given as its sequence of characters
RECURSIVE lstrip(_)
lstrip(s) == IF s = <<>> \/ Head(s) # " " THEN s ELSE lstrip(Tail(s))

RECURSIVE rstrip(_)
rstrip(s) ==
    IF s = <<>> \/ s[Len(s)] # " " THEN s ELSE rstrip(SubSeq(s, 1, Len(s) - 1))

strip(s) == rstrip(lstrip(s))

\* the names and descriptions callers pass to create_project: empty, blank,
\* plain and padded names
NameArgs == {<<>>, <<" ">>, <<"W">>, <<" ", "W">>}
DescriptionArgs == {"", "Site refresh"}

\* server.py create_project: if not name or not name.strip(): raise ValueError;
\* the store is not called
server_create_project_Invalid(c, name) ==
    /\ pc[c] = "idle"
    /\ (name = <<>> \/ strip(name) = <<>>)
    /\ Finish(c, Returned("server.create_project", "ValueError", 0))
    /\ UNCHANGED <<db, wdb, lock, clock, nextPid, nextTid, gone>>

\* server.py create_project: return db.create_project(name.strip(), description or "")
server_create_project(c, name, description) ==
    /\ ~(name = <<>> \/ strip(name) = <<>>)
    /\ create_project_New(c, strip(name), description)

\* comparison of two stored datetimes as SQLite compares TEXT: position by
\* position, and a text that is the beginning of another comes first
TextLess(a, b) ==
    LET n == IF Len(a) < Len(b) THEN Len(a) ELSE Len(b)
        same(i) == \A j \in 1..i : a[j] = b[j]
    IN  \/ \E i \in 1..n : same(i - 1) /\ a[i] < b[i]
        \/ same(n) /\ Len(a) < Len(b)

\* ORDER BY ... DESC over the rows S with the sort column key[row]: every
\* order SQLite may return them in (rows with equal keys come in any order)
OrderByDesc(S, key) ==
    {s \in [1..Cardinality(S) -> S] :
        /\ \A i, j \in DOMAIN s : i # j => s[i] # s[j]
        /\ \A i, j \in DOMAIN s : i < j => ~TextLess(key[s[i]], key[s[j]])}

\* ProjectSummary(...) of one row of the LEFT JOIN ... GROUP BY p.id:
\* COUNT(t.id) counts the task rows joined to the project
ProjectSummary(d, p) ==
    [id |-> p, name |-> d.projects[p].name,
     description |-> d.projects[p].description,
     created_at |-> _deserialize_datetime(d.projects[p].created_at),
     updated_at |-> _deserialize_datetime(d.projects[p].updated_at),
     task_count |-> Cardinality(TasksOf(d, p))]

\* (mutant: the rows come in the opposite order, oldest update first)
list_projects_OldestFirst(d) ==
    LET updated_at == [p \in DOMAIN d.projects |-> d.projects[p].updated_at]
    IN  {[i \in DOMAIN s |-> ProjectSummary(d, s[Len(s) + 1 - i])] :
            s \in OrderByDesc(DOMAIN d.projects, updated_at)}

\* list_projects: the lists the one SELECT ... ORDER BY p.updated_at DESC may give
list_projects(d) ==
    LET updated_at == [p \in DOMAIN d.projects |-> d.projects[p].updated_at]
    IN  {[i \in DOMAIN s |-> ProjectSummary(d, s[i])] :
            s \in OrderByDesc(DOMAIN d.projects, updated_at)}

\* sum(p.task_count for p in projects)
RECURSIVE SumTaskCount(_, _)
SumTaskCount(projects, n) ==
    IF n = 0 THEN 0 ELSE projects[n].task_count + SumTaskCount(projects, n - 1)

\* round(a / b, 2) in hundredths, b > 0: the nearest hundredth (a quotient
\* half-way between two hundredths needs at least 8 projects; to even here)
Round2(a, b) ==
    LET q == (a * 100) \div b
        r == (a * 100) % b
    IN  IF 2 * r < b THEN q
        ELSE IF 2 * r > b THEN q + 1
        ELSE IF q % 2 = 0 THEN q ELSE q + 1

\* (mutant: empty projects are counted as projects with tasks)
get_project_stats_CountAll(projects) ==
    [total_projects |-> Len(projects),
     total_tasks |-> SumTaskCount(projects, Len(projects)),
     projects_with_tasks |->
         Cardinality({i \in DOMAIN projects : projects[i].task_count >= 0}),
     empty_projects |->
         Cardinality({i \in DOMAIN projects : projects[i].task_count = 0}),
     average_tasks_per_project |->
         IF projects # <<>>
         THEN Round2(SumTaskCount(projects, Len(projects)), Len(projects))
         ELSE 0]

\* server.py get_project_stats / api_get_stats, from the result of list_projects
get_project_stats(projects) ==
    [total_projects |-> Len(projects),
     total_tasks |-> SumTaskCount(projects, Len(projects)),
     projects_with_tasks |->
         Cardinality({i \in DOMAIN projects : projects[i].task_count > 0}),
     empty_projects |->
         Cardinality({i \in DOMAIN projects : projects[i].task_count = 0}),
     average_tasks_per_project |->
         IF projects # <<>>
         THEN Round2(SumTaskCount(projects, Len(projects)), Len(projects))
         ELSE 0]

\* Task(id=task_row[0], ..., status=task_row[3], ...) of get_project
TaskOf(d, t) ==
    [id |-> t, description |-> d.tasks[t].description,
     category |-> d.tasks[t].category, status |-> d.tasks[t].status,
     created_at |-> _deserialize_datetime(d.tasks[t].created_at),
     updated_at |-> _deserialize_datetime(d.tasks[t].updated_at)]

\* (mutant: the dict starts with the one key backlog)
NoTaskStats_BacklogOnly == [s \in {"backlog"} |-> 0]

\* task_stats = {"backlog": 0, "in_progress": 0, "review": 0, "complete": 0}
NoTaskStats == [s \in {"backlog", "in_progress", "review", "complete"} |-> 0]

\* for task_row in cursor.fetchall(): ...; task_stats[task.status] += 1
task_stats(tasks) ==
    [s \in DOMAIN NoTaskStats |->
        NoTaskStats[s] + Cardinality({i \in DOMAIN tasks : tasks[i].status = s})]

\* the second half of get_project, for the project row read before:
\* SELECT ... FROM tasks WHERE project_id = ? ORDER BY created_at DESC, then a
\* Task(...) per row (pydantic raises on a status outside TaskStatus) and
\* ProjectDetails(...); the set of what the call may return
ProjectDetailsOf(row, d, project_id) ==
    LET created_at == [t \in DOMAIN d.tasks |-> d.tasks[t].created_at]
    IN  {IF \E i \in DOMAIN s : d.tasks[s[i]].status \notin TaskStatus
         THEN Returned("get_project", "ValidationError", project_id)
         ELSE [Returned("get_project", "ProjectDetails", project_id) EXCEPT
                  !.value =
                     [id |-> project_id, name |-> row.name,
                      description |-> row.description,
                      created_at |-> _deserialize_datetime(row.created_at),
                      updated_at |-> _deserialize_datetime(row.updated_at),
                      tasks |-> [i \in DOMAIN s |-> TaskOf(d, s[i])],
                      task_stats |-> task_stats([i \in DOMAIN s |-> TaskOf(d, s[i])])]]
           : s \in OrderByDesc(TasksOf(d, project_id), created_at)}

\* get_project when both of its SELECTs read the same committed state d
get_project(d, project_id) ==
    IF ~get_project_found(d, project_id)
    THEN {Returned("get_project", "None", project_id)}
    ELSE ProjectDetailsOf(d.projects[project_id], d, project_id)

\* get_project: SELECT ... FROM projects WHERE id = ?; if not project_row: return None
\* (seen is no local of the method: it keeps the task rows of the project as
\* they were stored when this SELECT ran)
get_project_Select(c, project_id) ==
    /\ pc[c] = "idle"
    /\ IF ~get_project_found(db, project_id)
       THEN Finish(c, Returned("get_project", "None", project_id))
       ELSE Goto(c, "gp_tasks",
                 [NoLoc EXCEPT !.arg = project_id, !.row = db.projects[project_id],
                               !.seen = [t \in TasksOf(db, project_id) |-> db.tasks[t]]])
    /\ UNCHANGED <<db, wdb, lock, clock, nextPid, nextTid, gone>>

\* get_project: SELECT ... FROM tasks ...; return ProjectDetails(...)
\* (a statement of its own: it reads what is committed by now)
get_project_Tasks(c) ==
    /\ pc[c] = "gp_tasks"
    /\ \E r \in ProjectDetailsOf(loc[c].row, db, loc[c].arg) : Finish(c, r)
    /\ UNCHANGED <<db, wdb, lock, clock, nextPid, nextTid, gone>>

\* list_projects: one SELECT
list_projects_Select(c) ==
    /\ pc[c] = "idle"
    /\ \E l \in list_projects(db) :
          Finish(c, [Returned("list_projects", "List", 0) EXCEPT !.value = l])
    /\ UNCHANGED <<db, wdb, lock, clock, nextPid, nextTid, gone>>

\* get_project_stats: projects = db.list_projects(); stats = {...}; return stats
get_project_stats_List(c) ==
    /\ pc[c] = "idle"
    /\ \E l \in list_projects(db) :
          Finish(c, [Returned("get_project_stats", "dict", 0) EXCEPT
                        !.value = get_project_stats(l)])
    /\ UNCHANGED <<db, wdb, lock, clock, nextPid, nextTid, gone>>

\* The store with its queries.  One caller uses every writing operation of
\* the store; the other one creates tasks, so that its INSERT may come after
\* the first one's delete_project, and queries.
Writer == "c1"
Reader == "c2"

NextQ ==
    \/ Tick
    \/ \E n \in Names, d \in Descriptions : create_project_New(Writer, n, d)
    \/ create_project_Insert(Writer)
    \/ \E p \in ProjectArgs : delete_project_Tasks(Writer, p)
    \/ delete_project_Project(Writer)
    \/ \E t \in TaskArgs, s \in StatusArgs : update_task_status_Now(Writer, t, s)
    \/ update_task_status_Update(Writer)
    \/ update_task_status_Project(Writer)
    \/ \E t \in TaskArgs : delete_task_Select(Writer, t)
    \/ delete_task_Delete(Writer)
    \/ delete_task_Update(Writer)
    \/ \E c \in Callers :
        \/ \E p \in ProjectArgs, d \in Descriptions, g \in Categories :
              create_task_Select(c, p, d, g)
        \/ create_task_Insert(c)
        \/ create_task_Update(c)
        \/ Busy(c)
    \/ \E p \in ProjectArgs : get_project_Select(Reader, p)
    \/ get_project_Tasks(Reader)
    \/ list_projects_Select(Reader)
    \/ get_project_stats_List(Reader)

SpecQ == Init /\ [][NextQ]_vars

\* create_project through the store and through the tool layer, with empty,
\* blank and padded names: one caller creates and deletes projects and creates
\* tasks, the other one calls get_project.
NextP ==
    \/ Tick
    \/ \E n \in NameArgs, d \in DescriptionArgs : create_project_New(Writer, n, d)
    \/ \E n \in NameArgs, d \in DescriptionArgs : server_create_project(Writer, n, d)
    \/ \E n \in NameArgs : server_create_project_Invalid(Writer, n)
    \/ create_project_Insert(Writer)
    \/ \E p \in ProjectArgs : delete_project_Tasks(Writer, p)
    \/ delete_project_Project(Writer)
    \/ \E p \in ProjectArgs, d \in Descriptions, g \in Categories :
          create_task_Select(Writer, p, d, g)
    \/ create_task_Insert(Writer)
    \/ create_task_Update(Writer)
    \/ \E p \in ProjectArgs : get_project_Select(Reader, p)
    \/ get_project_Tasks(Reader)

SpecP == Init /\ [][NextP]_vars

\* The status of a task moved between all four values: one caller creates
\* projects and tasks, both callers call update_task_status with every value
\* of TaskStatus.
NextS ==
    \/ Tick
    \/ \E n \in Names, d \in Descriptions : create_project_New(Writer, n, d)
    \/ create_project_Insert(Writer)
    \/ \E p \in ProjectArgs, d \in Descriptions, g \in Categories :
          create_task_Select(Writer, p, d, g)
    \/ create_task_Insert(Writer)
    \/ create_task_Update(Writer)
    \/ \E c \in Callers :
        \/ \E t \in TaskArgs, s \in TaskStatus : update_task_status_Now(c, t, s)
        \/ update_task_status_Update(c)
        \/ update_task_status_Project(c)
        \/ Busy(c)

SpecS == Init /\ [][NextS]_vars

\* ===================================================== the claims
Committed(op, kind) == ret'.op = op /\ ret'.kind = kind

Stamp(row) == _deserialize_datetime(row.updated_at)

\* C1: a task is never created, changed or deleted by create_task,
\* update_task_status or delete_task unless the same commit also writes the
\* updated_at of the task's parent project.
C1_ParentBumpedWithTask ==
    [][/\ Committed("create_task", "Task") =>
            /\ ret'.id \in DOMAIN db'.tasks
            /\ ret'.arg \in DOMAIN db'.projects
            /\ Stamp(db'.projects[ret'.arg]) = clock
       /\ (ret'.op = "update_task_status" /\ ret'.kind \in {"Task", "ValidationError"}) =>
            /\ ret'.arg \in DOMAIN db'.tasks
            /\ db'.tasks[ret'.arg].project_id \in DOMAIN db'.projects
            /\ db'.projects[db'.tasks[ret'.arg].project_id].updated_at
                  = db'.tasks[ret'.arg].updated_at
       /\ (Committed("delete_task", "True") /\ ret'.arg \in DOMAIN db.tasks) =>
            /\ ret'.arg \notin DOMAIN db'.tasks
            /\ db.tasks[ret'.arg].project_id \in DOMAIN db'.projects
            /\ Stamp(db'.projects[db.tasks[ret'.arg].project_id]) = clock
       /\ (db'.tasks # db.tasks) => ret'.op \in
            {"create_task", "update_task_status", "delete_task", "delete_project"}
      ]_vars

\* C2: the stored status of every task is one of the four values of TaskStatus.
C2_StatusAlwaysValid ==
    \A t \in DOMAIN db.tasks :
        db.tasks[t].status \in {"backlog", "in_progress", "review", "complete"}

\* C3: every stored task's project_id names a stored project.
C3_NoOrphanTask ==
    \A t \in DOMAIN db.tasks : db.tasks[t].project_id \in DOMAIN db.projects

\* C4: no committed step makes a project's updated_at smaller, and after a
\* successful create_task, update_task_status or delete_task the parent's
\* updated_at is the time of that call's write.
C4_UpdatedAtMonotonic ==
    [][/\ \A p \in DOMAIN db.projects \cap DOMAIN db'.projects :
              Stamp(db'.projects[p]) >= Stamp(db.projects[p])
       /\ (Committed("create_task", "Task") /\ ret'.arg \in DOMAIN db'.projects) =>
              Stamp(db'.projects[ret'.arg]) = clock
       /\ (Committed("update_task_status", "Task")
              /\ db'.tasks[ret'.id].project_id \in DOMAIN db'.projects) =>
              Stamp(db'.projects[db'.tasks[ret'.id].project_id]) = ret'.at
      ]_vars

\* C5: update_task_status on a stored task with a status outside TaskStatus
\* raises a validation error and changes neither the task's status or
\* updated_at nor its parent project's updated_at.
C5_InvalidStatusRejected ==
    [][\A c \in Callers :
          (/\ pc[c] \in {"ut_update", "ut_project"}
           /\ pc'[c] # pc[c]
           /\ loc[c].status \notin {"backlog", "in_progress", "review", "complete"}
           /\ loc[c].arg \in DOMAIN db.tasks) =>
             /\ loc[c].arg \in DOMAIN db'.tasks
             /\ db'.tasks[loc[c].arg].status = db.tasks[loc[c].arg].status
             /\ db'.tasks[loc[c].arg].updated_at = db.tasks[loc[c].arg].updated_at
             /\ db'.projects = db.projects
             /\ pc'[c] = "idle" =>
                   ret'.kind \in {"ValidationError", "OperationalError", "Rollback"}
      ]_vars

\* C6: a delete_project that finds its project removes it and every task
\* of it and nothing else; from then on get_project of that id finds nothing
\* and a delete_task called with one of the removed task ids returns False.
C6_DeleteProjectRemovesAll ==
    /\ [][\A c \in Callers :
             (/\ pc[c] = "dp_project" /\ pc'[c] = "idle" /\ ret'.kind # "Rollback"
              /\ loc[c].arg \in DOMAIN db.projects) =>
                /\ ret'.op = "delete_project" /\ ret'.kind = "True"
                /\ DOMAIN db'.projects = DOMAIN db.projects \ {loc[c].arg}
                /\ \A p \in DOMAIN db'.projects : db'.projects[p] = db.projects[p]
                /\ DOMAIN db'.tasks =
                      {t \in DOMAIN db.tasks : db.tasks[t].project_id # loc[c].arg}
                /\ \A t \in DOMAIN db'.tasks : db'.tasks[t] = db.tasks[t]
                /\ loc[c].arg \in gone'.projects
                /\ {t \in DOMAIN db.tasks : db.tasks[t].project_id = loc[c].arg}
                      \subseteq gone'.tasks
         ]_vars
    /\ [](\A p \in gone.projects : ~get_project_found(db, p))
    /\ [](\A t \in gone.tasks : t \notin DOMAIN db.tasks)
    /\ [][/\ \A c \in Callers :
               (pc[c] = "idle" /\ pc'[c] = "dt_delete") => loc'[c].arg \notin gone.tasks
          /\ (ret'.op = "delete_task" /\ pc' = pc /\ ret'.arg \in gone.tasks) =>
               ret'.kind = "False"
         ]_vars

\* a delete_project has just removed a project with a task, and another
\* project with a task of its own is still stored
C6_Witness ==
    /\ ret.op = "delete_project" /\ ret.kind = "True"
    /\ ret.arg \in gone.projects
    /\ gone.tasks # {}
    /\ \E t \in DOMAIN db.tasks : db.tasks[t].project_id \in DOMAIN db.projects

\* C7: create_task called with a project_id that no stored project has
\* returns None, starts no insert, and leaves both tables as they were.
\* (A call is made by an idle caller: it either goes on to its INSERT or
\* returns in the same step, and then no caller's pc changes.)
C7_CreateTaskNoProject ==
    [][/\ \A c \in Callers :
             (pc[c] = "idle" /\ pc'[c] = "ct_insert") =>
                 loc'[c].arg \in DOMAIN db.projects
       /\ (ret'.op = "create_task" /\ pc' = pc) =>
             /\ ret'.kind = "None"
             /\ ret'.arg \notin DOMAIN db.projects
             /\ db' = db
      ]_vars

\* create_task has just returned None although projects are stored
C7_Witness ==
    /\ ret.op = "create_task" /\ ret.kind = "None"
    /\ ret.arg \notin DOMAIN db.projects
    /\ DOMAIN db.projects # {}

\* C8: after a successful create_task the new task is stored with status
\* backlog and the given project_id, and the parent project's updated_at equals
\* the task's created_at and updated_at and is not less than it was.
C8_CreateTaskSameNow ==
    [][Committed("create_task", "Task") =>
          /\ ret'.id \in DOMAIN db'.tasks
          /\ db'.tasks[ret'.id].status = "backlog"
          /\ db'.tasks[ret'.id].project_id = ret'.arg
          /\ ret'.arg \in DOMAIN db.projects /\ ret'.arg \in DOMAIN db'.projects
          /\ db'.projects[ret'.arg].updated_at = db'.tasks[ret'.id].updated_at
          /\ db'.projects[ret'.arg].updated_at = db'.tasks[ret'.id].created_at
          /\ Stamp(db'.projects[ret'.arg]) >= Stamp(db.projects[ret'.arg])
      ]_vars

\* C9: a successful update_task_status(t, s) stores status s and updated_at
\* now in task t, stores the same now as the parent project's updated_at,
\* returns the task with status s, and changes nothing else.
C9_UpdateTaskStatusFrame ==
    [][\A c \in Callers :
          (pc[c] = "ut_project" /\ pc'[c] = "idle" /\ ret'.kind = "Task") =>
             LET t == loc[c].arg
                 p == db.tasks[t].project_id
             IN  /\ DOMAIN db'.tasks = DOMAIN db.tasks
                 /\ db'.tasks[t] = [db.tasks[t] EXCEPT
                        !.status = loc[c].status,
                        !.updated_at = _serialize_datetime(loc[c].t1)]
                 /\ \A u \in DOMAIN db.tasks \ {t} : db'.tasks[u] = db.tasks[u]
                 /\ ret'.op = "update_task_status" /\ ret'.id = t
                 /\ ret'.status = loc[c].status /\ ret'.at = loc[c].t1
                 /\ DOMAIN db'.projects = DOMAIN db.projects
                 /\ \A q \in DOMAIN db.projects \ {p} : db'.projects[q] = db.projects[q]
                 /\ p \in DOMAIN db.projects
                 /\ db'.projects[p] = [db.projects[p] EXCEPT
                        !.updated_at = _serialize_datetime(loc[c].t1)]
      ]_vars

\* C10: delete_task called with an id that no stored task has returns False,
\* starts no delete, and leaves both tables as they were.
C10_DeleteTaskNoTask ==
    [][/\ \A c \in Callers :
             (pc[c] = "idle" /\ pc'[c] = "dt_delete") =>
                 loc'[c].arg \in DOMAIN db.tasks
       /\ (ret'.op = "delete_task" /\ pc' = pc) =>
             /\ ret'.kind = "False"
             /\ ret'.arg \notin DOMAIN db.tasks
             /\ db' = db
      ]_vars

\* delete_task has just returned False although tasks are stored
C10_Witness ==
    /\ ret.op = "delete_task" /\ ret.kind = "False"
    /\ ret.arg \notin DOMAIN db.tasks
    /\ DOMAIN db.tasks # {}

\* C11: update_task_status called with an id that no stored task has returns
\* None (not found) from its UPDATE, never goes on to the project's row, and
\* leaves every task row and every project row as it was.
C11_UpdateStatusNoTask ==
    [][\A c \in Callers :
          /\ (pc[c] = "ut_update" /\ pc'[c] = "ut_project") =>
                 loc[c].arg \in DOMAIN db.tasks
          /\ (pc[c] = "ut_update" /\ pc'[c] = "idle"
                 /\ ret'.op = "update_task_status") =>
                 /\ ret'.kind = "None"
                 /\ loc[c].arg \notin DOMAIN db.tasks
                 /\ db' = db /\ wdb' = wdb
          /\ (pc[c] = "ut_update" /\ pc'[c] # pc[c]
                 /\ loc[c].arg \notin DOMAIN db.tasks) =>
                 /\ pc'[c] = "idle"
                 /\ ret'.kind \in {"None", "OperationalError"}
                 /\ db' = db
      ]_vars

\* update_task_status has just returned None although tasks are stored
C11_Witness ==
    /\ ret.op = "update_task_status" /\ ret.kind = "None"
    /\ ret.arg \notin DOMAIN db.tasks
    /\ DOMAIN db.tasks # {}

\* C12: delete_project returns True exactly when the project was stored and
\* the call removed it, and returns False with both tables left as they were
\* when no project with that id was stored.
C12_DeleteProjectResult ==
    [][\A c \in Callers :
          (pc[c] = "dp_project" /\ pc'[c] = "idle" /\ ret'.op = "delete_project") =>
             /\ ret'.kind \in {"True", "False"}
             /\ ret'.kind = "True" <=>
                   (loc[c].arg \in DOMAIN db.projects
                      /\ loc[c].arg \notin DOMAIN db'.projects)
             /\ ret'.kind = "False" =>
                   (loc[c].arg \notin DOMAIN db.projects /\ db' = db)
      ]_vars

\* C13: what other callers can read never shows a delete_project half done:
\* no step takes tasks away from a project that stays stored on behalf of a
\* delete_project, and no committed state holds a task of a project whose row
\* a delete_project has removed.
C13_DeleteProjectAtomic ==
    /\ [][\A c \in Callers :
             (pc[c] = "dp_project" \/ pc'[c] = "dp_project") =>
                \A p \in DOMAIN db'.projects :
                   {t \in DOMAIN db'.tasks : db'.tasks[t].project_id = p}
                      = {t \in DOMAIN db.tasks : db.tasks[t].project_id = p}
         ]_vars
    /\ [](\A t \in DOMAIN db.tasks : db.tasks[t].project_id \notin gone.projects)

\* C16: create_project stores a project whose created_at equals its
\* updated_at, and create_task stores a task whose created_at equals its
\* updated_at.
C16_CreatedEqualsUpdated ==
    [][/\ Committed("create_project", "Project") =>
             /\ ret'.id \in DOMAIN db'.projects
             /\ db'.projects[ret'.id].created_at = db'.projects[ret'.id].updated_at
       /\ Committed("create_task", "Task") =>
             /\ ret'.id \in DOMAIN db'.tasks
             /\ db'.tasks[ret'.id].created_at = db'.tasks[ret'.id].updated_at
      ]_vars

\* C19: a delete_task that returns True removes exactly its task, stores the
\* clock reading of its write as the parent project's updated_at, changes no
\* other task and no other project, and so lowers the number of the
\* parent's tasks by one.
C19_DeleteTaskFrame ==
    [][\A c \in Callers :
          (pc[c] = "dt_update" /\ pc'[c] = "idle" /\ ret'.kind = "True") =>
             LET t == loc[c].arg
                 p == loc[c].project_id
             IN  /\ ret'.op = "delete_task"
                 /\ t \in DOMAIN db.tasks
                 /\ DOMAIN db'.tasks = DOMAIN db.tasks \ {t}
                 /\ \A u \in DOMAIN db'.tasks : db'.tasks[u] = db.tasks[u]
                 /\ p \in DOMAIN db.projects
                 /\ DOMAIN db'.projects = DOMAIN db.projects
                 /\ db'.projects[p] = [db.projects[p] EXCEPT
                        !.updated_at = _serialize_datetime(clock)]
                 /\ \A q \in DOMAIN db.projects \ {p} : db'.projects[q] = db.projects[q]
                 /\ Cardinality({u \in DOMAIN db'.tasks : db'.tasks[u].project_id = p})
                       = Cardinality({u \in DOMAIN db.tasks : db.tasks[u].project_id = p}) - 1
      ]_vars

\* C14: create_project with a name that is not blank adds exactly one row and
\* changes no stored project or task; get_project of the returned id, run on
\* the store as the call left it, yields that id, the name and description
\* given, no tasks and four status counts of 0; and get_project of any stored
\* project without tasks returns its id, name and description, an empty task
\* list and four counts of 0.  (SpecP)
C14_CreateThenGet ==
    [][\A c \in Callers :
          /\ (pc[c] = "cp_insert" /\ pc'[c] = "idle" /\ strip(loc[c].name) # <<>>) =>
                /\ ret'.op = "create_project" /\ ret'.kind = "Project"
                /\ ret'.id = loc[c].id
                /\ loc[c].id \notin DOMAIN db.projects
                /\ DOMAIN db'.projects = DOMAIN db.projects \cup {loc[c].id}
                /\ \A p \in DOMAIN db.projects : db'.projects[p] = db.projects[p]
                /\ db'.tasks = db.tasks
                /\ \A r \in get_project(db', loc[c].id) :
                      /\ r.kind = "ProjectDetails"
                      /\ r.value.id = loc[c].id
                      /\ r.value.name = loc[c].name
                      /\ r.value.description = loc[c].description
                      /\ r.value.tasks = <<>>
                      /\ r.value.task_stats =
                            [s \in {"backlog", "in_progress", "review", "complete"} |-> 0]
          /\ (/\ pc[c] = "gp_tasks" /\ pc'[c] = "idle"
              /\ loc[c].arg \in DOMAIN db.projects
              /\ \A t \in DOMAIN db.tasks : db.tasks[t].project_id # loc[c].arg) =>
                /\ ret'.op = "get_project" /\ ret'.kind = "ProjectDetails"
                /\ ret'.value.id = loc[c].arg
                /\ ret'.value.name = db.projects[loc[c].arg].name
                /\ ret'.value.description = db.projects[loc[c].arg].description
                /\ ret'.value.tasks = <<>>
                /\ ret'.value.task_stats =
                      [s \in {"backlog", "in_progress", "review", "complete"} |-> 0]
      ]_vars

\* get_project has just returned a project without tasks whose padded name
\* was stored as given, while another project has a task
C14_Witness ==
    /\ ret.op = "get_project" /\ ret.kind = "ProjectDetails"
    /\ ret.value.tasks = <<>>
    /\ ret.value.name = <<" ", "W">>
    /\ ret.arg \in DOMAIN db.projects
    /\ \E t \in DOMAIN db.tasks : db.tasks[t].project_id \in DOMAIN db.projects

\* C15: create_project with a name that is empty or only whitespace ends in a
\* validation error and adds no project row, through the tool layer and
\* through the store.  (SpecP)
C15_BlankNameRejected ==
    [][/\ ret'.op = "server.create_project" =>
             (ret'.kind = "ValueError" /\ db' = db)
       /\ \A c \in Callers :
             (pc[c] = "cp_insert" /\ pc'[c] = "idle" /\ strip(loc[c].name) = <<>>) =>
                /\ ret'.kind \in {"ValidationError", "ValueError"}
                /\ db'.projects = db.projects
      ]_vars

\* C17: list_projects returns one summary per stored project and no other,
\* the later updated_at first, each with the number of task rows that carry
\* the project's id as task_count; the empty sequence when no project is
\* stored.  (SpecQ)
C17_ListProjects ==
    [][ret'.op = "list_projects" =>
          /\ ret'.kind = "List"
          /\ Len(ret'.value) = Cardinality(DOMAIN db.projects)
          /\ {ret'.value[i].id : i \in DOMAIN ret'.value} = DOMAIN db.projects
          /\ \A i, j \in DOMAIN ret'.value :
                i < j => ret'.value[i].updated_at >= ret'.value[j].updated_at
          /\ \A i \in DOMAIN ret'.value :
                LET p == ret'.value[i].id
                IN  /\ ret'.value[i].task_count =
                          Cardinality({t \in DOMAIN db.tasks : db.tasks[t].project_id = p})
                    /\ ret'.value[i].name = db.projects[p].name
                    /\ ret'.value[i].description = db.projects[p].description
                    /\ ret'.value[i].updated_at = Stamp(db.projects[p])
          /\ DOMAIN db.projects = {} => ret'.value = <<>>
      ]_vars

\* list_projects has just returned two projects, the one updated later first,
\* the first with a task and the second without
C17_Witness ==
    /\ ret.op = "list_projects"
    /\ Len(ret.value) = 2
    /\ ret.value[1].updated_at > ret.value[2].updated_at
    /\ ret.value[1].task_count > 0
    /\ ret.value[2].task_count = 0

\* C18: get_project of a stored project returns exactly the tasks of that
\* project, the later created_at first, and a task_stats with the four keys
\* backlog, in_progress, review, complete, each the number of returned tasks
\* with that status.  (SpecQ)
C18_GetProjectTasks ==
    [][\A c \in Callers :
          (pc[c] = "gp_tasks" /\ pc'[c] = "idle" /\ loc[c].arg \in DOMAIN db.projects) =>
             /\ ret'.op = "get_project" /\ ret'.kind = "ProjectDetails"
             /\ {ret'.value.tasks[i].id : i \in DOMAIN ret'.value.tasks}
                   = {t \in DOMAIN db.tasks : db.tasks[t].project_id = loc[c].arg}
             /\ Len(ret'.value.tasks) = Cardinality(
                   {t \in DOMAIN db.tasks : db.tasks[t].project_id = loc[c].arg})
             /\ \A i, j \in DOMAIN ret'.value.tasks :
                   i < j => ret'.value.tasks[i].created_at >= ret'.value.tasks[j].created_at
             /\ DOMAIN ret'.value.task_stats =
                   {"backlog", "in_progress", "review", "complete"}
             /\ \A s \in {"backlog", "in_progress", "review", "complete"} :
                   ret'.value.task_stats[s] = Cardinality(
                      {i \in DOMAIN ret'.value.tasks : ret'.value.tasks[i].status = s})
      ]_vars

\* C20: get_project_stats reports the number of stored projects, the number
\* of task rows that belong to them, the numbers of projects with and without
\* tasks, and on a store without projects 0 projects, 0 tasks and an average
\* of 0.  (SpecQ)
C20_GetStats ==
    [][ret'.op = "get_project_stats" =>
          LET count(p) == Cardinality({t \in DOMAIN db.tasks : db.tasks[t].project_id = p})
          IN  /\ ret'.kind = "dict"
              /\ ret'.value.total_projects = Cardinality(DOMAIN db.projects)
              /\ ret'.value.total_tasks = Cardinality(
                    {t \in DOMAIN db.tasks : db.tasks[t].project_id \in DOMAIN db.projects})
              /\ ret'.value.projects_with_tasks =
                    Cardinality({p \in DOMAIN db.projects : count(p) > 0})
              /\ ret'.value.empty_projects =
                    Cardinality({p \in DOMAIN db.projects : count(p) = 0})
              /\ DOMAIN db.projects = {} =>
                    /\ ret'.value.total_projects = 0
                    /\ ret'.value.total_tasks = 0
                    /\ ret'.value.average_tasks_per_project = 0
      ]_vars

\* get_project_stats has just counted two projects, one with a task and one
\* without
C20_Witness ==
    /\ ret.op = "get_project_stats"
    /\ ret.value.total_projects = 2
    /\ ret.value.projects_with_tasks = 1
    /\ ret.value.empty_projects = 1
    /\ ret.value.total_tasks >= 1

\* C23: no step changes the created_at of a stored project or the
\* project_id or created_at of a stored task (a row is known by its id), and
\* the id a create_project or create_task hands out is none of the ids handed
\* out before, those of deleted rows included.
C23_IdsAndCreationFixed ==
    /\ [][/\ \A p \in DOMAIN db.projects \cap DOMAIN db'.projects :
                db'.projects[p].created_at = db.projects[p].created_at
          /\ \A t \in DOMAIN db.tasks \cap DOMAIN db'.tasks :
                /\ db'.tasks[t].project_id = db.tasks[t].project_id
                /\ db'.tasks[t].created_at = db.tasks[t].created_at
          /\ \A c \in Callers :
                /\ (pc[c] = "idle" /\ pc'[c] = "cp_insert") =>
                      (loc'[c].id \notin 1..nextPid /\ loc'[c].id \in 1..nextPid')
                /\ (pc[c] = "idle" /\ pc'[c] = "ct_insert") =>
                      (loc'[c].id \notin 1..nextTid /\ loc'[c].id \in 1..nextTid')
          /\ (ret'.op = "create_project" /\ ret'.kind = "Project") =>
                /\ ret'.id \notin DOMAIN db.projects \cup gone.projects
                /\ ret'.id \in DOMAIN db'.projects
          /\ (ret'.op = "create_task" /\ ret'.kind = "Task") =>
                /\ ret'.id \notin DOMAIN db.tasks \cup gone.tasks
                /\ ret'.id \in DOMAIN db'.tasks
         ]_vars
    /\ [](/\ DOMAIN db.projects \cup gone.projects \subseteq 1..nextPid
          /\ DOMAIN db.tasks \cup gone.tasks \subseteq 1..nextTid)

\* update_task_status has just changed a task that was created earlier, and
\* a project has been deleted before
C23_Witness ==
    /\ ret.op = "update_task_status" /\ ret.kind = "Task"
    /\ ret.id \in DOMAIN db.tasks
    /\ db.tasks[ret.id].updated_at # db.tasks[ret.id].created_at
    /\ gone.projects # {}

\* C24: a delete_task returns True only if the task row was stored when the
\* call committed and that commit removed it.
C24_DeleteTaskTrueRemoved ==
    [][\A c \in Callers :
          (pc[c] = "dt_update" /\ pc'[c] = "idle"
              /\ ret'.op = "delete_task" /\ ret'.kind = "True") =>
             /\ loc[c].arg \in DOMAIN db.tasks
             /\ loc[c].arg \notin DOMAIN db'.tasks
      ]_vars

\* C25: in every committed state the updated_at of a stored project is not
\* earlier than the updated_at of any task stored with its id.
C25_ProjectNotOlderThanTasks ==
    \A t \in DOMAIN db.tasks :
        db.tasks[t].project_id \in DOMAIN db.projects =>
            _deserialize_datetime(db.projects[db.tasks[t].project_id].updated_at)
               >= _deserialize_datetime(db.tasks[t].updated_at)

\* C21: update_task_status of a stored task with any of the four values is
\* not turned away whatever status the task has (the new value included): its
\* UPDATE writes the value, the call returns the task with it, and the
\* committed row carries it.  (SpecS)
C21_AnyTransition ==
    [][\A c \in Callers :
          /\ (/\ pc[c] = "ut_update" /\ pc'[c] # pc[c]
              /\ loc[c].arg \in DOMAIN db.tasks
              /\ loc[c].status \in {"backlog", "in_progress", "review", "complete"}
              /\ ret'.kind # "OperationalError") =>
                /\ pc'[c] = "ut_project"
                /\ wdb'.tasks[loc[c].arg].status = loc[c].status
          /\ (/\ pc[c] = "ut_project" /\ pc'[c] = "idle"
              /\ loc[c].status \in {"backlog", "in_progress", "review", "complete"}) =>
                /\ ret'.op = "update_task_status" /\ ret'.kind = "Task"
                /\ ret'.id = loc[c].arg
                /\ ret'.status = loc[c].status
                /\ db'.tasks[loc[c].arg].status = loc[c].status
      ]_vars

\* an update_task_status has written backlog over a committed complete and is
\* about to commit, while another task has the status it is given again
C21_Witness ==
    \E c \in Callers :
        /\ pc[c] = "ut_project"
        /\ db.tasks[loc[c].arg].status = "complete"
        /\ wdb.tasks[loc[c].arg].status = "backlog"
        /\ \E t \in DOMAIN db.tasks : t # loc[c].arg /\ db.tasks[t].status = "review"

\* C22: what get_project returns was stored together in one committed state:
\* the task rows it read are those stored with the project row it read (the
\* state of its first SELECT), or the project row it read is the one stored
\* with the task rows it read (the state of its second SELECT).  (SpecQ)
C22_GetProjectOneState ==
    [][\A c \in Callers :
          (pc[c] = "gp_tasks" /\ pc'[c] = "idle" /\ ret'.kind = "ProjectDetails") =>
             \/ [t \in {u \in DOMAIN db.tasks : db.tasks[u].project_id = loc[c].arg}
                    |-> db.tasks[t]] = loc[c].seen
             \/ /\ loc[c].arg \in DOMAIN db.projects
                /\ db.projects[loc[c].arg] = loc[c].row
      ]_vars

\* C26: in every committed state the views agree: for each project the
\* task_count of list_projects is the length of the task list of get_project
\* and the sum of its four task_stats counts, and the total_tasks of
\* get_project_stats is the number of task rows.  (SpecQ)
C26_ViewsAgree ==
    \A l \in list_projects(db) :
        /\ \A i \in DOMAIN l :
              \A r \in get_project(db, l[i].id) :
                 /\ r.kind = "ProjectDetails"
                 /\ l[i].task_count = Len(r.value.tasks)
                 /\ l[i].task_count =
                       r.value.task_stats["backlog"] + r.value.task_stats["in_progress"]
                          + r.value.task_stats["review"] + r.value.task_stats["complete"]
        /\ get_project_stats(l).total_tasks = Cardinality(DOMAIN db.tasks)

=============================================================================
